---- MODULE Spec2Model ----
(***************************************************************************)
(* Payment-transaction reconciliation and experience accrual of the        *)
(* campus-project-hub API: services.CreateSnapTransaction,                 *)
(* services.HandleMidtransNotification and services.AddUserExp over the    *)
(* users, projects and transactions tables, the content handlers that      *)
(* accrue experience, and the leveling functions of the gamification       *)
(* service.                                                                *)
(***************************************************************************)
EXTENDS Integers, Sequences, FiniteSets, TLC

\* ------------------------------------------------------------------ bounds
MaxTx == 2          \* rows the transactions table may hold
MaxNotifs == 2      \* webhook deliveries accepted by the router
MaxTime == 1        \* seconds the wall clock may advance
MaxProbe == 101     \* level thresholds the stored totals are drawn around
MaxEvents == 2      \* project, article, like, comment and view requests served
MaxPurchases == 1   \* purchases followed beside the content requests

\* ------------------------------------------------------- program constants
ExpSellProject == 150
ExpBuyProject == 50
ExpCreateProject == 100
ExpReceiveLike == 10
ExpReceiveComment == 5
ExpProjectViewed == 1
ExpCreateArticle == 75
ExpArticleViewed == 1

BaseExp == 100
MaxLevel == 100

StatusOK == 200
StatusCreated == 201
StatusBadRequest == 400
StatusNotFound == 404
StatusInternalServerError == 500

TransactionStatusPending == "pending"
TransactionStatusSuccess == "success"
TransactionStatusFailed == "failed"

ProjectTypeFree == "free"
ProjectTypePaid == "paid"

\* ------------------------------------------------------------ input domains
Users == {"alice", "bob"}

\* A project UUID is <<first 8 characters, remainder>>.
PaidProject == <<"aaaaaaaa", "1">>
FreeProject == <<"bbbbbbbb", "1">>
MissingProject == <<"cccccccc", "1">>
ProjectIds == {PaidProject, FreeProject, MissingProject}

Prices == {75000}
Workers == {"w1", "w2"}
Buyers == {"bob"}
Editable == {PaidProject}
TxIds == 1..MaxTx
Null == "NULL"

ServerKey == <<"SB-Mid-server-key">>
ForgedKey == <<"guessed-key">>

TransactionStatuses == {"capture", "settlement", "pending", "deny", "cancel", "expire", "refund"}
FraudStatuses == {"accept", "", "challenge"}
GatewayTxIds == {"gw-1"}
StatusCode == <<"200">>
GrossAmount == <<"50000.00">>
UnknownOrder == <<"PURCHASE", "zzzzzzzz", 0>>
SnapOutcomes == {"token", "network"}

VARIABLES
    projects,       \* projects table: id -> [userId, type, price]
    totalExp,       \* users.total_exp: user id -> Int
    transactions,   \* transactions table: set of rows
    snapCalls,      \* requests sent to the Snap API
    now,            \* time.Now().Unix()
    result,         \* what the last call returned
    delivered,      \* webhook deliveries so far
    inflight,       \* request goroutines in the middle of a call: worker -> locals
    projectStats,   \* projects.likes and projects.views: id -> [likes, views]
    projectLikes,   \* project_likes table: set of <<user id, project id>>
    comments,       \* comments table: set of rows
    articles,       \* articles table: id -> [userId, views]
    events          \* project, article, like, comment and view requests so far

\* the tables of the content handlers
contentVars == <<projectStats, projectLikes, comments, articles, events>>

vars == <<projects, totalExp, transactions, snapCalls, now, result, delivered, inflight,
          projectStats, projectLikes, comments, articles, events>>

Idle == [pc |-> "idle"]

\* ------------------------------------------------------------------ helpers
\* projectID.String()[:8]
Prefix8(projectID) == projectID[1]

\* fmt.Sprintf("PURCHASE-%s-%d", projectID.String()[:8], time.Now().Unix())
OrderIdFor(projectID, unix) == <<"PURCHASE", Prefix8(projectID), unix>>

\* sha512 + hex: a collision-free digest of the concatenated bytes
Sha512Hex(data) == <<"sha512">> \o data

\* a check that accepts whatever signature the notification carries
ExpectedSignature_AcceptsAny(notification) == notification.signature_key

ExpectedSignature(notification) ==
    Sha512Hex(notification.order_id \o notification.status_code
              \o notification.gross_amount \o ServerKey)

\* an UPDATE that stores the delta instead of adding it
AddUserExp_Overwrites(exp, userID, delta) ==
    IF userID \in DOMAIN exp THEN [exp EXCEPT ![userID] = delta] ELSE exp

\* db.Model(&models.User{}).Where("id = ?", userID).Update("total_exp", total_exp + exp)
AddUserExp(exp, userID, delta) ==
    IF userID \in DOMAIN exp THEN [exp EXCEPT ![userID] = @ + delta] ELSE exp

\* a lookup whose WHERE clause matches every row
RowsByOrderId_AnyOrder(rows, orderID) == rows

\* db.Where("midtrans_order_id = ?", orderID).First(&transaction): lowest primary key
RowsByOrderId(rows, orderID) == {t \in rows : t.midtransOrderId = orderID}

FirstByOrderId(rows, orderID) ==
    CHOOSE t \in RowsByOrderId(rows, orderID) :
        \A u \in RowsByOrderId(rows, orderID) : t.id <= u.id

\* a switch that also credits on the branch of the refused payments
GrantsExp_OnRefusal(transactionStatus, fraudStatus) ==
    \/ /\ transactionStatus \in {"capture", "settlement"}
       /\ fraudStatus \in {"accept", ""}
    \/ transactionStatus \in {"deny", "cancel", "expire"}

\* the switch on notification.TransactionStatus
GrantsExp(transactionStatus, fraudStatus) ==
    /\ transactionStatus \in {"capture", "settlement"}
    /\ fraudStatus \in {"accept", ""}

\* a switch without the fraud-status test
MapStatus_IgnoresFraud(transactionStatus, fraudStatus, current) ==
    IF transactionStatus \in {"capture", "settlement"}
    THEN TransactionStatusSuccess
    ELSE IF transactionStatus = "pending"
    THEN TransactionStatusPending
    ELSE IF transactionStatus \in {"deny", "cancel", "expire"}
    THEN TransactionStatusFailed
    ELSE current

\* a switch whose default branch fails the transaction
MapStatus_UnknownFails(transactionStatus, fraudStatus, current) ==
    IF transactionStatus \in {"capture", "settlement"}
    THEN IF fraudStatus = "accept" \/ fraudStatus = ""
         THEN TransactionStatusSuccess
         ELSE TransactionStatusFailed
    ELSE IF transactionStatus = "pending"
    THEN TransactionStatusPending
    ELSE TransactionStatusFailed

MapStatus(transactionStatus, fraudStatus, current) ==
    IF transactionStatus \in {"capture", "settlement"}
    THEN IF fraudStatus = "accept" \/ fraudStatus = ""
         THEN TransactionStatusSuccess
         ELSE current
    ELSE IF transactionStatus = "pending"
    THEN TransactionStatusPending
    ELSE IF transactionStatus \in {"deny", "cancel", "expire"}
    THEN TransactionStatusFailed
    ELSE current

\* db.Save(&transaction): every column of the row with that primary key
\* an UPDATE keyed by the order ID instead of the primary key
SaveRow_ByOrderId(rows, row) ==
    {IF t.midtransOrderId = row.midtransOrderId
     THEN [t EXCEPT !.status = row.status,
                    !.midtransTransactionId = row.midtransTransactionId]
     ELSE t : t \in rows}

SaveRow(rows, row) == {t \in rows : t.id # row.id} \cup {row}

\* the "already purchased" query of CreateSnapTransaction
HasSuccess(rows, projectID, buyerID) ==
    \E t \in rows : /\ t.projectId = projectID
                    /\ t.buyerId = buyerID
                    /\ t.status = TransactionStatusSuccess

\* the checks with the "already purchased" query ahead of the type test
CreateError_PurchasedFirst(projectID, buyerID) ==
    IF projectID \notin DOMAIN projects THEN "project tidak ditemukan"
    ELSE IF HasSuccess(transactions, projectID, buyerID) THEN "Anda sudah membeli project ini"
    ELSE IF projects[projectID].type # ProjectTypePaid THEN "project ini gratis"
    ELSE ""

\* the error CreateSnapTransaction returns before the insert, "" when none
CreateError(projectID, buyerID) ==
    IF projectID \notin DOMAIN projects THEN "project tidak ditemukan"
    ELSE IF projects[projectID].type # ProjectTypePaid THEN "project ini gratis"
    ELSE IF HasSuccess(transactions, projectID, buyerID) THEN "Anda sudah membeli project ini"
    ELSE ""

\* the error CreateSnapTransaction returns after the Snap call, "" when none
SnapError(outcome) ==
    CASE outcome = "token" -> ""
      [] outcome = "network" -> "gagal menghubungi Midtrans"
      [] outcome = "undecodable" -> "gagal memproses respons Midtrans"
      [] OTHER -> "gagal membuat transaksi Midtrans"

\* a row whose seller is the caller instead of the project's owner
NewTransaction_SellerIsBuyer(id, projectID, buyerID, sellerID, price, unix) ==
    [id |-> id,
     projectId |-> projectID,
     buyerId |-> buyerID,
     sellerId |-> buyerID,
     amount |-> price,
     status |-> TransactionStatusPending,
     midtransOrderId |-> OrderIdFor(projectID, unix),
     midtransTransactionId |-> Null]

\* the row CreateSnapTransaction builds; id is the uuid BeforeCreate draws
NewTransaction(id, projectID, buyerID, sellerID, price, unix) ==
    [id |-> id,
     projectId |-> projectID,
     buyerId |-> buyerID,
     sellerId |-> sellerID,
     amount |-> price,
     status |-> TransactionStatusPending,
     midtransOrderId |-> OrderIdFor(projectID, unix),
     midtransTransactionId |-> Null]

\* a call that deletes its row again when the Snap request fails
CreateSnapTransaction_RollsBack(projectID, buyerID, id, outcome) ==
    IF CreateError(projectID, buyerID) # ""
    THEN [err |-> CreateError(projectID, buyerID),
          transactions |-> transactions,
          snapCalls |-> snapCalls]
    ELSE [err |-> SnapError(outcome),
          transactions |->
              IF SnapError(outcome) # "" THEN transactions
              ELSE transactions \cup
                  {NewTransaction(id, projectID, buyerID, projects[projectID].userId,
                                  projects[projectID].price, now)},
          snapCalls |-> snapCalls + 1]

\* services.CreateSnapTransaction run to completion on the current tables:
\* the error it returns and the tables it leaves
CreateSnapTransaction(projectID, buyerID, id, outcome) ==
    IF CreateError(projectID, buyerID) # ""
    THEN [err |-> CreateError(projectID, buyerID),
          transactions |-> transactions,
          snapCalls |-> snapCalls]
    ELSE [err |-> SnapError(outcome),
          transactions |-> transactions \cup
              {NewTransaction(id, projectID, buyerID, projects[projectID].userId,
                              projects[projectID].price, now)},
          snapCalls |-> snapCalls + 1]

\* services.HandleMidtransNotification run to completion on the current
\* tables: the error it returns and the tables it leaves
HandleMidtransNotification(notification) ==
    IF notification.signature_key # ExpectedSignature(notification)
    THEN [err |-> "signature tidak valid",
          transactions |-> transactions, totalExp |-> totalExp]
    ELSE IF RowsByOrderId(transactions, notification.order_id) = {}
    THEN [err |-> "transaksi tidak ditemukan",
          transactions |-> transactions, totalExp |-> totalExp]
    ELSE LET found == FirstByOrderId(transactions, notification.order_id)
             ts == notification.transaction_status
             fs == notification.fraud_status
             saved == [found EXCEPT
                         !.midtransTransactionId = notification.transaction_id,
                         !.status = MapStatus(ts, fs, found.status)]
         IN [err |-> "",
             transactions |-> SaveRow(transactions, saved),
             totalExp |->
                 IF GrantsExp(ts, fs)
                 THEN AddUserExp(AddUserExp(totalExp, found.buyerId, ExpBuyProject),
                                 found.sellerId, ExpSellProject)
                 ELSE totalExp]

\* ------------------------------------------------------------------ inputs
KnownOrders == {t.midtransOrderId : t \in transactions}

Orders == KnownOrders \cup {UnknownOrder}

Keys == {ServerKey, ForgedKey}

\* the webhook body a sender holding key builds
Notification(orderID, ts, fs, g, key) ==
    [order_id |-> orderID, status_code |-> StatusCode, gross_amount |-> GrossAmount,
     transaction_status |-> ts, fraud_status |-> fs, transaction_id |-> g,
     signature_key |-> Sha512Hex(orderID \o StatusCode \o GrossAmount \o key)]

\* primary keys, numbered here in insertion order
FreeIds == {i \in TxIds : i = Cardinality(transactions) + 1}

\* -------------------------------------------------------------------- state
Init ==
    /\ projects = (PaidProject :> [userId |-> "alice", type |-> ProjectTypePaid, price |-> 50000])
               @@ (FreeProject :> [userId |-> "alice", type |-> ProjectTypeFree, price |-> 0])
    /\ totalExp = [u \in Users |-> 0]
    /\ transactions = {}
    /\ snapCalls = 0
    /\ now = 0
    /\ result = [op |-> "none", err |-> "", code |-> 0]
    /\ delivered = 0
    /\ inflight = [w \in Workers |-> Idle]
    /\ projectStats = [p \in {PaidProject, FreeProject} |-> [likes |-> 0, views |-> 0]]
    /\ projectLikes = {}
    /\ comments = {}
    /\ articles = <<>>
    /\ events = 0

\* ------------------------------------------------------------------ actions
\* handlers.TransactionHandler.Create: every error is answered 400
CreateResponse(err) ==
    [op |-> "create", err |-> err, code |-> IF err # "" THEN StatusBadRequest ELSE StatusCreated]

\* handlers.TransactionHandler.Callback: every error is answered 400
CallbackResponse(err) ==
    [op |-> "webhook", err |-> err, code |-> IF err # "" THEN StatusBadRequest ELSE StatusOK]

Create(projectID, buyerID, outcome) ==
    \E id \in TxIds :
        /\ CreateError(projectID, buyerID) = "" => id \in FreeIds
        /\ LET out == CreateSnapTransaction(projectID, buyerID, id, outcome) IN
             /\ transactions' = out.transactions
             /\ snapCalls' = out.snapCalls
             /\ result' = CreateResponse(out.err)
        /\ UNCHANGED <<projects, totalExp, now, delivered, inflight>>
        /\ UNCHANGED contentVars

Callback(notification) ==
    /\ delivered < MaxNotifs
    /\ delivered' = delivered + 1
    /\ LET out == HandleMidtransNotification(notification) IN
         /\ transactions' = out.transactions
         /\ totalExp' = out.totalExp
         /\ result' = CallbackResponse(out.err)
    /\ UNCHANGED <<projects, snapCalls, now, inflight>>
    /\ UNCHANGED contentVars

\* handlers.ProjectHandler.Update: the owner edits type and price
UpdateProject(projectID, type, price) ==
    /\ projectID \in DOMAIN projects
    /\ projects' = [projects EXCEPT ![projectID].type = type, ![projectID].price = price]
    /\ result' = [op |-> "update", err |-> "", code |-> StatusOK]
    /\ UNCHANGED <<totalExp, transactions, snapCalls, now, delivered, inflight>>
    /\ UNCHANGED contentVars

\* the wall clock advances by a second
Tick ==
    /\ now < MaxTime
    /\ now' = now + 1
    /\ UNCHANGED <<projects, totalExp, transactions, snapCalls, result, delivered, inflight>>
    /\ UNCHANGED contentVars

Next ==
    \/ \E p \in ProjectIds, b \in Buyers, o \in SnapOutcomes : Create(p, b, o)
    \/ \E o \in Orders, ts \in TransactionStatuses, fs \in FraudStatuses,
          g \in GatewayTxIds, k \in Keys : Callback(Notification(o, ts, fs, g, k))
    \/ \E p \in Editable, ty \in {ProjectTypeFree, ProjectTypePaid}, pr \in Prices :
          UpdateProject(p, ty, pr)
    \/ Tick

Spec == Init /\ [][Next]_vars

\* ------------------------------------------- the same calls, step by step
\* Requests run on their own goroutines; between two database statements of
\* one call the statements of another may run.

\* HandleMidtransNotification up to the first statement after the lookup:
\* signature check, First(&transaction), the local assignments of the switch
ReceiveNotification(w, notification) ==
    /\ inflight[w] = Idle
    /\ delivered < MaxNotifs
    /\ delivered' = delivered + 1
    /\ UNCHANGED <<projects, totalExp, transactions, snapCalls, now>>
    /\ UNCHANGED contentVars
    /\ IF notification.signature_key # ExpectedSignature(notification)
       THEN /\ result' = CallbackResponse("signature tidak valid")
            /\ UNCHANGED inflight
       ELSE IF RowsByOrderId(transactions, notification.order_id) = {}
       THEN /\ result' = CallbackResponse("transaksi tidak ditemukan")
            /\ UNCHANGED inflight
       ELSE LET found == FirstByOrderId(transactions, notification.order_id)
                ts == notification.transaction_status
                fs == notification.fraud_status
            IN /\ inflight' = [inflight EXCEPT ![w] =
                     [pc |-> IF GrantsExp(ts, fs) THEN "addBuyerExp" ELSE "save",
                      read |-> found.status,
                      grants |-> GrantsExp(ts, fs),
                      expErrs |-> 0,
                      transaction |-> [found EXCEPT
                          !.midtransTransactionId = notification.transaction_id,
                          !.status = MapStatus(ts, fs, found.status)]]]
               /\ UNCHANGED result

\* AddUserExp(transaction.BuyerID, ExpBuyProject): the UPDATE is applied, or
\* the database reports an error (ok = FALSE); the handler drops the return
\* value, expErrs counts the errors it dropped
AddBuyerExp(w, ok) ==
    /\ inflight[w].pc = "addBuyerExp"
    /\ totalExp' = IF ok
                   THEN AddUserExp(totalExp, inflight[w].transaction.buyerId, ExpBuyProject)
                   ELSE totalExp
    /\ inflight' = [inflight EXCEPT ![w].pc = "addSellerExp",
                                    ![w].expErrs = IF ok THEN @ ELSE @ + 1]
    /\ UNCHANGED <<projects, transactions, snapCalls, now, result, delivered>>
    /\ UNCHANGED contentVars

\* a handler that returns the error of a failed accrual instead of saving
AddSellerExp_AbortsOnError(w, ok) ==
    /\ inflight[w].pc = "addSellerExp"
    /\ totalExp' = IF ok
                   THEN AddUserExp(totalExp, inflight[w].transaction.sellerId, ExpSellProject)
                   ELSE totalExp
    /\ inflight' = [inflight EXCEPT ![w] =
                       IF ok THEN [inflight[w] EXCEPT !.pc = "save"] ELSE Idle]
    /\ result' = IF ok THEN result ELSE [op |-> "webhook", err |-> "gagal menambah exp",
                                          code |-> StatusBadRequest]
    /\ UNCHANGED <<projects, transactions, snapCalls, now, delivered>>
    /\ UNCHANGED contentVars

\* AddUserExp(transaction.SellerID, ExpSellProject), applied or failed
AddSellerExp(w, ok) ==
    /\ inflight[w].pc = "addSellerExp"
    /\ totalExp' = IF ok
                   THEN AddUserExp(totalExp, inflight[w].transaction.sellerId, ExpSellProject)
                   ELSE totalExp
    /\ inflight' = [inflight EXCEPT ![w].pc = "save",
                                    ![w].expErrs = IF ok THEN @ ELSE @ + 1]
    /\ UNCHANGED <<projects, transactions, snapCalls, now, result, delivered>>
    /\ UNCHANGED contentVars

\* return db.Save(&transaction).Error
SaveTransaction(w) ==
    /\ inflight[w].pc = "save"
    /\ transactions' = SaveRow(transactions, inflight[w].transaction)
    /\ inflight' = [inflight EXCEPT ![w] = Idle]
    /\ result' = CallbackResponse("")
    /\ UNCHANGED <<projects, totalExp, snapCalls, now, delivered>>
    /\ UNCHANGED contentVars

\* return db.Save(&transaction).Error when the UPDATE fails: no row is
\* written and the handler answers with the database error
SaveTransactionFails(w) ==
    /\ inflight[w].pc = "save"
    /\ inflight' = [inflight EXCEPT ![w] = Idle]
    /\ result' = CallbackResponse("database error")
    /\ UNCHANGED <<projects, totalExp, transactions, snapCalls, now, delivered>>
    /\ UNCHANGED contentVars

\* CreateSnapTransaction up to the "already purchased" query
CheckPurchase(w, projectID, buyerID) ==
    /\ inflight[w] = Idle
    /\ IF CreateError(projectID, buyerID) # ""
       THEN /\ result' = CreateResponse(CreateError(projectID, buyerID))
            /\ UNCHANGED inflight
       ELSE /\ Cardinality(transactions)
                 + Cardinality({v \in Workers : inflight[v].pc = "insert"}) < MaxTx
            /\ inflight' = [inflight EXCEPT ![w] =
                  [pc |-> "insert", projectId |-> projectID, buyerId |-> buyerID,
                   sellerId |-> projects[projectID].userId,
                   price |-> projects[projectID].price]]
            /\ UNCHANGED result
    /\ UNCHANGED <<projects, totalExp, transactions, snapCalls, now, delivered>>
    /\ UNCHANGED contentVars

\* CreateSnapTransaction from db.Create(&transaction) to its return
InsertTransaction(w, outcome) ==
    /\ inflight[w].pc = "insert"
    /\ \E id \in FreeIds :
         transactions' = transactions \cup
           {NewTransaction(id, inflight[w].projectId, inflight[w].buyerId,
                           inflight[w].sellerId, inflight[w].price, now)}
    /\ snapCalls' = snapCalls + 1
    /\ result' = CreateResponse(SnapError(outcome))
    /\ inflight' = [inflight EXCEPT ![w] = Idle]
    /\ UNCHANGED <<projects, totalExp, now, delivered>>
    /\ UNCHANGED contentVars

NextConcurrent ==
    \/ \E w \in Workers, o \in Orders, ts \in TransactionStatuses, fs \in FraudStatuses,
          g \in GatewayTxIds, k \in Keys :
             ReceiveNotification(w, Notification(o, ts, fs, g, k))
    \/ \E w \in Workers : AddBuyerExp(w, TRUE)
    \/ \E w \in Workers : AddSellerExp(w, TRUE)
    \/ \E w \in Workers : SaveTransaction(w)
    \/ \E w \in Workers, p \in ProjectIds, b \in Buyers : CheckPurchase(w, p, b)
    \/ \E w \in Workers, o \in SnapOutcomes : InsertTransaction(w, o)
    \/ Tick

SpecConcurrent == Init /\ [][NextConcurrent]_vars

\* ------------------------------- one call at a time, statements that fail
\* The calls of one goroutine, statement by statement, where each UPDATE of
\* AddUserExp is applied or fails with a database error.
NextAccrualErrors ==
    \/ \E o \in Orders, ts \in TransactionStatuses, fs \in FraudStatuses,
          g \in GatewayTxIds, k \in Keys :
             ReceiveNotification("w1", Notification(o, ts, fs, g, k))
    \/ \E ok \in BOOLEAN : AddBuyerExp("w1", ok)
    \/ \E ok \in BOOLEAN : AddSellerExp("w1", ok)
    \/ SaveTransaction("w1")
    \/ \E p \in ProjectIds, b \in Buyers : CheckPurchase("w1", p, b)
    \/ \E o \in SnapOutcomes : InsertTransaction("w1", o)
    \/ Tick

SpecAccrualErrors == Init /\ [][NextAccrualErrors]_vars

\* The same calls where the final db.Save of the handler may fail as well.
NextSaveErrors ==
    \/ NextAccrualErrors
    \/ SaveTransactionFails("w1")

SpecSaveErrors == Init /\ [][NextSaveErrors]_vars

\* ------------------------------------------------------------- leveling
\* the for loop of GetLevelFromExp, entered with the current level
RECURSIVE LevelLoop(_, _)
LevelLoop(level, exp) ==
    IF level < MaxLevel
    THEN IF exp < BaseExp * level * level THEN level ELSE LevelLoop(level + 1, exp)
    ELSE level

\* a loop that levels up only above the threshold
GetLevelFromExp_StrictThreshold(exp) == LevelLoop(1, exp - 1)

GetLevelFromExp(exp) == LevelLoop(1, exp)

\* the for loop of models.GetLevelFromExp, written with its own literals
RECURSIVE ModelsLevelLoop(_, _)
ModelsLevelLoop(level, exp) ==
    IF level < 100
    THEN IF exp < 100 * level * level THEN level ELSE ModelsLevelLoop(level + 1, exp)
    ELSE level

\* a helper that reports level 0 for a negative total
ModelsGetLevelFromExp_ZeroBelowZero(exp) ==
    IF exp < 0 THEN 0 ELSE ModelsLevelLoop(1, exp)

ModelsGetLevelFromExp(exp) == ModelsLevelLoop(1, exp)

\* models.User.ToResponse: the fields that depend on the stored total
ToResponse(id, exp) ==
    [id |-> id, totalExp |-> exp, level |-> ModelsGetLevelFromExp(exp)]

GetRequiredExpForLevel(level) == BaseExp * level * level

\* Go's integer division truncates toward zero
GoDiv(a, b) == IF (a >= 0) = (b > 0) THEN a \div b ELSE -((-a) \div b)

GetLevelProgress(exp) ==
    LET currentLevel == GetLevelFromExp(exp)
        currentLevelExp == GetRequiredExpForLevel(currentLevel)
        nextLevelExp == GetRequiredExpForLevel(currentLevel + 1)
        expInCurrentLevel == exp - currentLevelExp
        expNeeded == nextLevelExp - currentLevelExp
    IN IF currentLevel >= MaxLevel THEN 100
       ELSE IF expNeeded <= 0 THEN 100
       ELSE GoDiv(expInCurrentLevel * 100, expNeeded)

\* the distance to the threshold of the current level
GetExpToNextLevel_CurrentThreshold(exp) ==
    LET currentLevel == GetLevelFromExp(exp) IN
    IF currentLevel >= MaxLevel THEN 0
    ELSE GetRequiredExpForLevel(currentLevel) - exp

GetExpToNextLevel(exp) ==
    LET currentLevel == GetLevelFromExp(exp) IN
    IF currentLevel >= MaxLevel THEN 0
    ELSE GetRequiredExpForLevel(currentLevel + 1) - exp

\* the thresholds tried from the lowest one up
GetLevelTitle_AscendingThresholds(level) ==
    IF level >= 1 THEN "Pemula"
    ELSE IF level >= 5 THEN "Aktif"
    ELSE IF level >= 10 THEN "Contributor"
    ELSE IF level >= 20 THEN "Expert"
    ELSE IF level >= 50 THEN "Master"
    ELSE IF level >= 100 THEN "Legend"
    ELSE "Pemula"

GetLevelTitle(level) ==
    IF level >= 100 THEN "Legend"
    ELSE IF level >= 50 THEN "Master"
    ELSE IF level >= 20 THEN "Expert"
    ELSE IF level >= 10 THEN "Contributor"
    ELSE IF level >= 5 THEN "Aktif"
    ELSE "Pemula"

GetUserGamificationStats(exp) ==
    [totalExp |-> exp,
     level |-> GetLevelFromExp(exp),
     levelTitle |-> GetLevelTitle(GetLevelFromExp(exp)),
     levelProgress |-> GetLevelProgress(exp),
     expToNextLevel |-> GetExpToNextLevel(exp)]

\* stored totals: each level threshold, one below and one above it, and
\* a negative total (the column is a signed integer)
ExpInputs ==
    {BaseExp * l * l + d : l \in 0..MaxProbe, d \in {-1, 0, 1}} \cup {-BaseExp}

\* the users table as seeded, alice's stored total drawn from ExpInputs
InitLevel ==
    /\ projects = (PaidProject :> [userId |-> "alice", type |-> ProjectTypePaid, price |-> 50000])
               @@ (FreeProject :> [userId |-> "alice", type |-> ProjectTypeFree, price |-> 0])
    /\ totalExp \in {[u \in Users |-> IF u = "alice" THEN e ELSE 0] : e \in ExpInputs}
    /\ transactions = {}
    /\ snapCalls = 0
    /\ now = 0
    /\ result = [op |-> "none", err |-> "", code |-> 0]
    /\ delivered = 0
    /\ inflight = [w \in Workers |-> Idle]
    /\ projectStats = [p \in {PaidProject, FreeProject} |-> [likes |-> 0, views |-> 0]]
    /\ projectLikes = {}
    /\ comments = {}
    /\ articles = <<>>
    /\ events = 0

\* handlers.GamificationHandler.GetStats for the authenticated user
GetStats(userID) ==
    /\ userID \in DOMAIN totalExp
    /\ result' = [op |-> "stats", err |-> "", code |-> StatusOK,
                  stats |-> GetUserGamificationStats(totalExp[userID])]
    /\ UNCHANGED <<projects, totalExp, transactions, snapCalls, now, delivered, inflight>>
    /\ UNCHANGED contentVars

\* handlers.UserHandler.Get: the profile and the stats of one stored total
Get(id) ==
    /\ result' = IF id \notin DOMAIN totalExp
                 THEN [op |-> "user", err |-> "user tidak ditemukan", code |-> StatusNotFound]
                 ELSE [op |-> "user", err |-> "", code |-> StatusOK,
                       user |-> ToResponse(id, totalExp[id]),
                       gamification |-> GetUserGamificationStats(totalExp[id])]
    /\ UNCHANGED <<projects, totalExp, transactions, snapCalls, now, delivered, inflight>>
    /\ UNCHANGED contentVars

NextLevel ==
    \/ \E u \in Users : GetStats(u)
    \/ \E id \in Users \cup {"nobody"} : Get(id)

SpecLevel == InitLevel /\ [][NextLevel]_vars

\* ------------------------------------------------- content and accrual
NewProject == <<"dddddddd", "1">>
ContentProjects == {PaidProject, FreeProject, NewProject}
ArticleIds == {"article-1"}

\* totalExp after handlers.ProjectHandler.Create by userID
CreateProjectExp(userID) == AddUserExp(totalExp, userID, ExpCreateProject)

\* totalExp after handlers.ArticleHandler.Create by userID
CreateArticleExp(userID) == AddUserExp(totalExp, userID, ExpCreateArticle)

\* a toggle that takes the like's points back when the like is removed
LikeExp_UnlikeRevokes(userID, projectID) ==
    IF projectID \notin DOMAIN projects THEN totalExp
    ELSE IF projects[projectID].userId = userID THEN totalExp
    ELSE IF <<userID, projectID>> \in projectLikes
    THEN AddUserExp(totalExp, projects[projectID].userId, -ExpReceiveLike)
    ELSE AddUserExp(totalExp, projects[projectID].userId, ExpReceiveLike)

\* a toggle that also rewards the owner for liking the own project
LikeExp_RewardsSelf(userID, projectID) ==
    IF projectID \notin DOMAIN projects THEN totalExp
    ELSE IF <<userID, projectID>> \in projectLikes THEN totalExp
    ELSE AddUserExp(totalExp, projects[projectID].userId, ExpReceiveLike)

\* totalExp after handlers.ProjectHandler.Like by userID on projectID
LikeExp(userID, projectID) ==
    IF projectID \notin DOMAIN projects THEN totalExp
    ELSE IF <<userID, projectID>> \in projectLikes THEN totalExp
    ELSE IF projects[projectID].userId # userID
    THEN AddUserExp(totalExp, projects[projectID].userId, ExpReceiveLike)
    ELSE totalExp

\* totalExp after handlers.CommentHandler.Create by userID on projectID
CommentExp(userID, projectID) ==
    IF projectID \notin DOMAIN projects THEN totalExp
    ELSE IF projects[projectID].userId # userID
    THEN AddUserExp(totalExp, projects[projectID].userId, ExpReceiveComment)
    ELSE totalExp

\* totalExp after handlers.ArticleHandler.View of articleID
ViewArticleExp(articleID) ==
    IF articleID \in DOMAIN articles
    THEN AddUserExp(totalExp, articles[articleID].userId, ExpArticleViewed)
    ELSE totalExp

\* handlers.ProjectHandler.Create: a free project of the caller
CreateProject(userID, projectID) ==
    /\ events < MaxEvents
    /\ userID \in DOMAIN totalExp
    /\ projectID \notin DOMAIN projects
    /\ events' = events + 1
    /\ projects' = projects @@
          (projectID :> [userId |-> userID, type |-> ProjectTypeFree, price |-> 0])
    /\ projectStats' = projectStats @@ (projectID :> [likes |-> 0, views |-> 0])
    /\ totalExp' = CreateProjectExp(userID)
    /\ result' = [op |-> "createProject", err |-> "", code |-> StatusCreated]
    /\ UNCHANGED <<transactions, snapCalls, now, delivered, inflight,
                   projectLikes, comments, articles>>

\* handlers.ArticleHandler.Create
CreateArticle(userID, articleID) ==
    /\ events < MaxEvents
    /\ userID \in DOMAIN totalExp
    /\ articleID \notin DOMAIN articles
    /\ events' = events + 1
    /\ articles' = articles @@ (articleID :> [userId |-> userID, views |-> 0])
    /\ totalExp' = CreateArticleExp(userID)
    /\ result' = [op |-> "createArticle", err |-> "", code |-> StatusCreated]
    /\ UNCHANGED <<projects, transactions, snapCalls, now, delivered, inflight,
                   projectStats, projectLikes, comments>>

\* handlers.ProjectHandler.Like: removes the caller's like when there is one,
\* adds it otherwise
LikeProject(userID, projectID) ==
    /\ events < MaxEvents
    /\ userID \in DOMAIN totalExp
    /\ events' = events + 1
    /\ totalExp' = LikeExp(userID, projectID)
    /\ IF projectID \notin DOMAIN projects
       THEN /\ result' = [op |-> "like", err |-> "Project tidak ditemukan",
                          code |-> StatusNotFound]
            /\ UNCHANGED <<projectLikes, projectStats>>
       ELSE IF <<userID, projectID>> \in projectLikes
       THEN /\ projectLikes' = projectLikes \ {<<userID, projectID>>}
            /\ projectStats' = [projectStats EXCEPT ![projectID].likes = @ - 1]
            /\ result' = [op |-> "like", err |-> "", code |-> StatusOK, liked |-> FALSE]
       ELSE /\ projectLikes' = projectLikes \cup {<<userID, projectID>>}
            /\ projectStats' = [projectStats EXCEPT ![projectID].likes = @ + 1]
            /\ result' = [op |-> "like", err |-> "", code |-> StatusOK, liked |-> TRUE]
    /\ UNCHANGED <<projects, transactions, snapCalls, now, delivered, inflight,
                   comments, articles>>

\* handlers.CommentHandler.Create
CommentProject(userID, projectID) ==
    /\ events < MaxEvents
    /\ userID \in DOMAIN totalExp
    /\ events' = events + 1
    /\ totalExp' = CommentExp(userID, projectID)
    /\ IF projectID \notin DOMAIN projects
       THEN /\ result' = [op |-> "comment", err |-> "Project tidak ditemukan",
                          code |-> StatusNotFound]
            /\ UNCHANGED comments
       ELSE /\ comments' = comments \cup
                 {[id |-> events + 1, userId |-> userID, projectId |-> projectID]}
            /\ result' = [op |-> "comment", err |-> "", code |-> StatusCreated]
    /\ UNCHANGED <<projects, transactions, snapCalls, now, delivered, inflight,
                   projectStats, projectLikes, articles>>

\* handlers.ProjectHandler.View up to the AddUserExp call: the UPDATE of
\* projects.views and First(&project)
ViewProject(w, projectID) ==
    /\ events < MaxEvents
    /\ inflight[w] = Idle
    /\ events' = events + 1
    /\ IF projectID \in DOMAIN projects
       THEN /\ projectStats' = [projectStats EXCEPT ![projectID].views = @ + 1]
            /\ inflight' = [inflight EXCEPT ![w] =
                  [pc |-> "viewExp", userId |-> projects[projectID].userId]]
            /\ UNCHANGED result
       ELSE /\ result' = [op |-> "view", err |-> "", code |-> StatusOK, target |-> Null]
            /\ UNCHANGED <<projectStats, inflight>>
    /\ UNCHANGED <<projects, totalExp, transactions, snapCalls, now, delivered,
                   projectLikes, comments, articles>>

\* a handler that reports an owner it cannot credit
AddViewExp_FailsOnMissingUser(w) ==
    /\ inflight[w].pc = "viewExp"
    /\ totalExp' = AddUserExp(totalExp, inflight[w].userId, ExpProjectViewed)
    /\ result' = IF inflight[w].userId \in DOMAIN totalExp
                 THEN [op |-> "view", err |-> "", code |-> StatusOK,
                       target |-> inflight[w].userId]
                 ELSE [op |-> "view", err |-> "user tidak ditemukan",
                       code |-> StatusNotFound, target |-> inflight[w].userId]
    /\ inflight' = [inflight EXCEPT ![w] = Idle]
    /\ UNCHANGED <<projects, transactions, snapCalls, now, delivered>>
    /\ UNCHANGED contentVars

\* handlers.ProjectHandler.View from AddUserExp(project.UserID, ExpProjectViewed)
\* to the response; target is the user the accrual was sent for
AddViewExp(w) ==
    /\ inflight[w].pc = "viewExp"
    /\ totalExp' = AddUserExp(totalExp, inflight[w].userId, ExpProjectViewed)
    /\ result' = [op |-> "view", err |-> "", code |-> StatusOK,
                  target |-> inflight[w].userId]
    /\ inflight' = [inflight EXCEPT ![w] = Idle]
    /\ UNCHANGED <<projects, transactions, snapCalls, now, delivered>>
    /\ UNCHANGED contentVars

\* handlers.ArticleHandler.View
ViewArticle(articleID) ==
    /\ events < MaxEvents
    /\ events' = events + 1
    /\ articles' = IF articleID \in DOMAIN articles
                   THEN [articles EXCEPT ![articleID].views = @ + 1]
                   ELSE articles
    /\ totalExp' = ViewArticleExp(articleID)
    /\ result' = [op |-> "viewArticle", err |-> "", code |-> StatusOK]
    /\ UNCHANGED <<projects, transactions, snapCalls, now, delivered, inflight,
                   projectStats, projectLikes, comments>>

\* the rows a DELETE of the user cascades to
ProjectsOf(userID) == {p \in DOMAIN projects : projects[p].userId = userID}

\* transactions.buyer_id, seller_id and project_id reference their rows
\* without ON DELETE: the DELETE fails while such a row exists
Referenced(userID) ==
    \E t \in transactions :
        \/ t.buyerId = userID
        \/ t.sellerId = userID
        \/ t.projectId \in ProjectsOf(userID)

\* handlers.UserHandler.Delete by an administrator
DeleteUser(userID) ==
    /\ userID \in DOMAIN totalExp
    /\ IF Referenced(userID)
       THEN /\ result' = [op |-> "deleteUser", err |-> "Gagal menghapus user",
                          code |-> StatusInternalServerError]
            /\ UNCHANGED <<projects, totalExp, projectStats, projectLikes, comments, articles>>
       ELSE /\ totalExp' = [u \in DOMAIN totalExp \ {userID} |-> totalExp[u]]
            /\ projects' = [p \in DOMAIN projects \ ProjectsOf(userID) |-> projects[p]]
            /\ projectStats' =
                  [p \in DOMAIN projects \ ProjectsOf(userID) |-> projectStats[p]]
            /\ projectLikes' = {l \in projectLikes :
                                  l[1] # userID /\ l[2] \notin ProjectsOf(userID)}
            /\ comments' = {c \in comments :
                              c.userId # userID /\ c.projectId \notin ProjectsOf(userID)}
            /\ articles' = [a \in {b \in DOMAIN articles : articles[b].userId # userID}
                              |-> articles[a]]
            /\ result' = [op |-> "deleteUser", err |-> "", code |-> StatusOK]
    /\ UNCHANGED <<transactions, snapCalls, now, delivered, inflight, events>>

\* the requests of the content handlers beside purchases and their webhooks
NextEvents ==
    \/ \E u \in Users : CreateProject(u, NewProject)
    \/ \E u \in Users, a \in ArticleIds : CreateArticle(u, a)
    \/ \E u \in Users, p \in ContentProjects : LikeProject(u, p)
    \/ \E u \in Users, p \in ContentProjects : CommentProject(u, p)
    \/ \E p \in ContentProjects : ViewProject("w1", p)
    \/ AddViewExp("w1")
    \/ \E a \in ArticleIds : ViewArticle(a)
    \/ \E u \in Users : DeleteUser(u)
    \/ \E b \in Buyers :
          Cardinality(transactions) < MaxPurchases /\ Create(PaidProject, b, "token")
    \/ \E o \in Orders, ts \in {"settlement", "deny"} :
          Callback(Notification(o, ts, "accept", "gw-1", ServerKey))

SpecEvents == Init /\ [][NextEvents]_vars

\* ================================================================= claims
\* P holds of every notification the model delivers
EveryNotification(P(_)) ==
    \A o \in Orders, ts \in TransactionStatuses, fs \in FraudStatuses,
       g \in GatewayTxIds, k \in Keys : P(Notification(o, ts, fs, g, k))

\* what the claims say about a notification, stated apart from the handler
ValidlySigned(n) ==
    n.signature_key =
        <<"sha512">> \o n.order_id \o n.status_code \o n.gross_amount \o ServerKey

SuccessMapping(n) ==
    /\ n.transaction_status \in {"capture", "settlement"}
    /\ n.fraud_status \in {"accept", ""}

Resolves(n) == \E t \in transactions : t.midtransOrderId = n.order_id

Resolved(n) == FirstByOrderId(transactions, n.order_id)

RowAfter(id) == CHOOSE t \in transactions' : t.id = id

\* a step of the webhook handler
WebhookStep == delivered' = delivered + 1

\* C1: purchase EXP is granted only by the step that moves a transaction
\* into success: a notification applied to a transaction that is already
\* success (a replay) leaves every totalExp unchanged.
C1_GrantOnlyOnTransition ==
    [][(/\ WebhookStep
        /\ \A t \in transactions :
              RowAfter(t.id).status = TransactionStatusSuccess
              => t.status = TransactionStatusSuccess)
       => totalExp' = totalExp]_vars

\* C2: at most one transaction of a (projectId, buyerId) pair is success.
C2_OneSuccessPerPair ==
    \A t1, t2 \in transactions :
        (/\ t1.projectId = t2.projectId
         /\ t1.buyerId = t2.buyerId
         /\ t1.status = TransactionStatusSuccess
         /\ t2.status = TransactionStatusSuccess)
        => t1.id = t2.id

\* C3: success and failed are terminal: a row in one of them keeps its
\* status in every later step.
C3_TerminalStatuses ==
    [][\A t \in transactions :
          t.status \in {TransactionStatusSuccess, TransactionStatusFailed}
          => RowAfter(t.id).status = t.status]_vars

C4_InvalidSignatureRejected_At(n) ==
        ~ValidlySigned(n)
        => LET out == HandleMidtransNotification(n) IN
           /\ out.err = "signature tidak valid"
           /\ out.transactions = transactions
           /\ out.totalExp = totalExp

\* C4: a notification whose signature_key is not the keyed digest of its
\* order_id, status_code and gross_amount is answered with the
\* invalid-signature error, and neither a transaction nor a totalExp changes,
\* whether or not its order_id is stored.
C4_InvalidSignatureRejected == EveryNotification(C4_InvalidSignatureRejected_At)

C4_Witness ==
    /\ result.op = "webhook"
    /\ result.err = "signature tidak valid"
    /\ \E t \in transactions : t.status = TransactionStatusPending
    /\ \E t \in transactions : t.status = TransactionStatusSuccess

\* C5: two handlers that both read the same pending transaction for a
\* success-mapping notification and both finished their credit steps, none
\* of which failed, have,
\* between them, credited the buyer 50 once and the seller 150 once, as a
\* single delivery does.
SingleDeliveryExp(t) ==
    AddUserExp(AddUserExp([u \in Users |-> 0], t.buyerId, ExpBuyProject),
               t.sellerId, ExpSellProject)

C5_ConcurrentDeliveriesCreditOnce ==
    \A w1, w2 \in Workers :
        (/\ w1 # w2
         /\ delivered = 2
         /\ inflight[w1].pc = "save" /\ inflight[w2].pc = "save"
         /\ inflight[w1].expErrs = 0 /\ inflight[w2].expErrs = 0
         /\ inflight[w1].read = TransactionStatusPending
         /\ inflight[w2].read = TransactionStatusPending
         /\ inflight[w1].transaction = inflight[w2].transaction
         /\ inflight[w1].transaction.status = TransactionStatusSuccess)
        => totalExp = SingleDeliveryExp(inflight[w1].transaction)

\* the resolved row as the handler leaves it
SavedRow(n) ==
    CHOOSE t \in HandleMidtransNotification(n).transactions : t.id = Resolved(n).id

OnPending(n) ==
    /\ ValidlySigned(n)
    /\ Resolves(n)
    /\ Resolved(n).status = TransactionStatusPending

C6_StatusMapping_At(n) ==
        OnPending(n)
        => LET saved == SavedRow(n).status IN
           /\ SuccessMapping(n) => saved = "success"
           /\ n.transaction_status = "pending" => saved = "pending"
           /\ n.transaction_status \in {"deny", "cancel", "expire"} => saved = "failed"
           /\ ~SuccessMapping(n) => saved # "success"

\* C6: a validly signed notification applied to a pending transaction
\* leaves it success for capture/settlement with fraud status accept or
\* empty, pending for pending, failed for deny/cancel/expire, and never
\* success for any other combination.
C6_StatusMapping == EveryNotification(C6_StatusMapping_At)

C6_Witness ==
    /\ result.op = "webhook" /\ result.err = ""
    /\ \E t \in transactions : t.status = "success"
    /\ \E t \in transactions : t.status = "failed"

Unmapped(n) ==
    /\ ~SuccessMapping(n)
    /\ n.transaction_status \notin {"pending", "deny", "cancel", "expire"}

C7_UnmappedChangesNothing_At(n) ==
        (Unmapped(n) /\ ValidlySigned(n) /\ Resolves(n))
        => /\ SavedRow(n).status = Resolved(n).status
           /\ SavedRow(n).midtransTransactionId = Resolved(n).midtransTransactionId
           /\ HandleMidtransNotification(n).totalExp = totalExp

\* C7 as claimed: a validly signed notification outside the mapping leaves
\* the resolved transaction's status and external transaction identifier,
\* and every totalExp, as they were.
C7_UnmappedChangesNothing == EveryNotification(C7_UnmappedChangesNothing_At)

C7_UnmappedKeepsStatusAndExp_At(n) ==
        (Unmapped(n) /\ ValidlySigned(n) /\ Resolves(n))
        => LET out == HandleMidtransNotification(n)
               saved == CHOOSE t \in out.transactions : t.id = Resolved(n).id
           IN /\ out.err = ""
              /\ saved.status = Resolved(n).status
              /\ saved.midtransTransactionId = n.transaction_id
              /\ out.totalExp = totalExp

\* C7 as amended: a validly signed notification outside the mapping leaves
\* the resolved transaction's status and every totalExp as they were, and
\* stores its transaction_id as the external transaction identifier.
C7_UnmappedKeepsStatusAndExp == EveryNotification(C7_UnmappedKeepsStatusAndExp_At)

C7_Witness ==
    /\ result.op = "webhook" /\ result.err = ""
    /\ \A u \in Users : totalExp[u] = 0
    /\ \E t \in transactions :
          /\ t.status = "pending"
          /\ t.midtransTransactionId \in GatewayTxIds
          /\ \E ts \in TransactionStatuses, fs \in FraudStatuses, g \in GatewayTxIds :
                LET n == Notification(t.midtransOrderId, ts, fs, g, ServerKey) IN
                ValidlySigned(n) /\ Unmapped(n) /\ Resolved(n) = t

C8_RefusalGrantsNothing_At(n) ==
        LET out == HandleMidtransNotification(n) IN
        /\ (n.transaction_status \in {"deny", "cancel", "expire"} /\ OnPending(n))
              => /\ SavedRow(n).status = "failed"
                 /\ out.totalExp = totalExp
        /\ ~(ValidlySigned(n) /\ SuccessMapping(n)) => out.totalExp = totalExp

\* C8: a validly signed deny, cancel or expire notification applied to a
\* pending transaction leaves it failed and every totalExp unchanged, and a
\* notification changes a totalExp only if it maps to success.
C8_RefusalGrantsNothing == EveryNotification(C8_RefusalGrantsNothing_At)

C8_Witness ==
    /\ result.op = "webhook" /\ result.err = ""
    /\ \E t \in transactions : t.status = "failed"
    /\ \A t \in transactions : t.status # "success"
    /\ \A u \in Users : totalExp[u] = 0

\* the rejection the claim expects of a create-purchase call, "" when none
ExpectedRejection(p, b) ==
    IF p \notin DOMAIN projects THEN "project tidak ditemukan"
    ELSE IF projects[p].type # "paid" THEN "project ini gratis"
    ELSE IF \E t \in transactions :
               t.projectId = p /\ t.buyerId = b /\ t.status = "success"
    THEN "Anda sudah membeli project ini"
    ELSE ""

Rejections ==
    {"project tidak ditemukan", "project ini gratis", "Anda sudah membeli project ini"}

\* C9: create-purchase rejects a missing project, then a project that is
\* not paid, then a buyer who already holds a success transaction for it;
\* a rejected call inserts no row, sends nothing to the gateway and changes
\* no table.
C9_RejectionsInOrder ==
    /\ [](\A p \in ProjectIds, b \in Buyers, o \in SnapOutcomes, id \in TxIds :
            ExpectedRejection(p, b) # ""
            => /\ CreateSnapTransaction(p, b, id, o).err = ExpectedRejection(p, b)
               /\ CreateSnapTransaction(p, b, id, o).transactions = transactions
               /\ CreateSnapTransaction(p, b, id, o).snapCalls = snapCalls)
    /\ [][(result'.op = "create" /\ result'.err \in Rejections)
            => UNCHANGED <<projects, totalExp, transactions, snapCalls>>]_vars

C9_Witness ==
    /\ result.op = "create" /\ result.err = "project ini gratis"
    /\ \E t \in transactions :
          /\ t.status = "success"
          /\ projects[t.projectId].type = "free"

\* C10: a create-purchase call that is not rejected adds exactly one row,
\* pending, with the caller as buyer, the project's owner as seller and the
\* project's current price as amount, and leaves the other rows alone; a
\* row's status changes only in a step of the webhook handler.
C10_CreatedPending ==
    /\ [](\A p \in ProjectIds, b \in Buyers, o \in SnapOutcomes, id \in FreeIds :
            ExpectedRejection(p, b) = ""
            => LET after == CreateSnapTransaction(p, b, id, o).transactions IN
               /\ transactions \subseteq after
               /\ Cardinality(after \ transactions) = 1
               /\ \A r \in after \ transactions :
                     /\ r.id = id
                     /\ r.status = "pending"
                     /\ r.projectId = p
                     /\ r.buyerId = b
                     /\ r.sellerId = projects[p].userId
                     /\ r.amount = projects[p].price)
    /\ [][~WebhookStep
            => /\ \A t \in transactions : RowAfter(t.id).status = t.status
               /\ \A r \in transactions' :
                     (\A t \in transactions : t.id # r.id) => r.status = "pending"]_vars

C10_Witness ==
    /\ result.op = "create" /\ result.err = ""
    /\ \E t \in transactions :
          /\ t.status = "pending"
          /\ t.buyerId = "bob"
          /\ t.sellerId = "alice"
          /\ t.amount = 75000
          /\ t.projectId = PaidProject

\* the ways the Snap request fails: no response, a body that is not JSON,
\* a response without a token
GatewayFailures == {"network", "undecodable", "empty"}

GatewayErrors ==
    {"gagal menghubungi Midtrans", "gagal memproses respons Midtrans",
     "gagal membuat transaksi Midtrans"}

\* C11: when the Snap request fails after the insert, create-purchase
\* returns an error, the inserted row stays stored as pending (not deleted,
\* not failed) beside the untouched older rows, and the buyer still holds no
\* success row for the project, so the next create-purchase passes the checks.
C11_GatewayFailureKeepsPendingRow ==
    \A p \in ProjectIds, b \in Buyers, o \in GatewayFailures, id \in FreeIds :
        ExpectedRejection(p, b) = ""
        => LET out == CreateSnapTransaction(p, b, id, o) IN
           /\ out.err \in GatewayErrors
           /\ transactions \subseteq out.transactions
           /\ \E r \in out.transactions :
                 /\ r.id = id
                 /\ r.status = "pending"
                 /\ r.projectId = p
                 /\ r.buyerId = b
           /\ p \in DOMAIN projects /\ projects[p].type = "paid"
           /\ ~\E r \in out.transactions :
                 r.projectId = p /\ r.buyerId = b /\ r.status = "success"

C11_Witness ==
    /\ result.op = "create" /\ result.err = "gagal menghubungi Midtrans"
    /\ snapCalls = 2
    /\ \E t1, t2 \in transactions :
          /\ t1.id # t2.id
          /\ t1.projectId = t2.projectId /\ t1.buyerId = t2.buyerId
          /\ t1.status = "pending" /\ t2.status = "pending"

\* C17: no two transactions share an external order ID.
C17_OrderIdsUnique ==
    \A t1, t2 \in transactions :
        t1.midtransOrderId = t2.midtransOrderId => t1.id = t2.id

\* C18: a validly signed notification whose order_id is stored with no
\* transaction is answered with the transaction-not-found error, and no
\* transaction and no totalExp changes.
C18_UnknownOrderRejected ==
    \A o \in Orders :
        (\A t \in transactions : t.midtransOrderId # o)
        => \A ts \in TransactionStatuses, fs \in FraudStatuses, g \in GatewayTxIds :
              LET n == Notification(o, ts, fs, g, ServerKey)
                  out == HandleMidtransNotification(n)
              IN ValidlySigned(n)
                 => /\ out.err = "transaksi tidak ditemukan"
                    /\ out.transactions = transactions
                    /\ out.totalExp = totalExp

C18_Witness ==
    /\ result.op = "webhook" /\ result.err = "transaksi tidak ditemukan"
    /\ \E t \in transactions : t.status = "pending"

\* C19: the caller can tell the error classes apart by status: a missing
\* project is answered 404, a free project, an already purchased project and
\* an invalid webhook signature 400, a failed gateway call 5xx.
C19_ErrorClassesDistinguished ==
    /\ result.op = "create"
       => /\ result.err = "project tidak ditemukan" => result.code = 404
          /\ result.err \in {"project ini gratis", "Anda sudah membeli project ini"}
                => result.code = 400
          /\ result.err \in GatewayErrors => result.code \in 500..599
    /\ (result.op = "webhook" /\ result.err = "signature tidak valid")
       => result.code = 400

\* the level the claim defines: one more than the thresholds reached, at most 100
LevelForExp(e) ==
    LET reached == 1 + Cardinality({l \in 1..99 : 100 * l * l <= e})
    IN IF reached < 100 THEN reached ELSE 100

\* C20: the level of every non-negative total is in 1..100 and is one more
\* than the number of l in 1..99 with 100*l*l <= total, capped at 100; the
\* totals 0, 100, 400 and 900 give the levels 1, 2, 3 and 4.
C20_LevelForExp ==
    /\ \A u \in DOMAIN totalExp :
          totalExp[u] >= 0
          => /\ GetLevelFromExp(totalExp[u]) \in 1..100
             /\ GetLevelFromExp(totalExp[u]) = LevelForExp(totalExp[u])
    /\ result.op = "stats" => result.stats.level = LevelForExp(result.stats.totalExp)
    /\ GetLevelFromExp(0) = 1
    /\ GetLevelFromExp(100) = 2
    /\ GetLevelFromExp(400) = 3
    /\ GetLevelFromExp(900) = 4

C20_Witness ==
    /\ result.op = "stats"
    /\ result.stats.totalExp = 100 * 99 * 99
    /\ result.stats.level = 100

\* C12: an accrual call that fails during a success-mapping notification
\* changes no totalExp and no row, and the handler goes on to its next
\* statement with the transaction still mapped to success; the handler then
\* stores the row as success and the webhook call reports success.
C12_AccrualFailureKeepsSuccess ==
    [][\A w \in Workers :
          /\ (/\ inflight[w].pc \in {"addBuyerExp", "addSellerExp"}
              /\ inflight'[w] # inflight[w]
              /\ totalExp' = totalExp)
             => /\ inflight'[w].pc \in {"addSellerExp", "save"}
                /\ inflight'[w].pc # inflight[w].pc
                /\ inflight'[w].transaction = inflight[w].transaction
                /\ inflight[w].transaction.status = "success"
                /\ transactions' = transactions
          /\ (/\ inflight[w].pc = "save"
              /\ inflight[w].grants
              /\ inflight[w].expErrs > 0
              /\ inflight'[w] # inflight[w])
             => /\ \E t \in transactions' :
                      /\ t.id = inflight[w].transaction.id
                      /\ t.status = "success"
                /\ result'.op = "webhook"
                /\ result'.err = ""
                /\ result'.code = 200]_vars

C12_Witness ==
    /\ result.op = "webhook" /\ result.err = "" /\ result.code = 200
    /\ delivered = 1
    /\ \A w \in Workers : inflight[w] = Idle
    /\ \E t \in transactions : t.status = "success"
    /\ \A u \in Users : totalExp[u] = 0

\* what the accrual statements a handler has executed so far add to a user
CreditedBy(w, u) ==
    IF inflight[w].pc \in {"idle", "insert"} THEN 0
    ELSE IF ~inflight[w].grants THEN 0
    ELSE (IF inflight[w].pc \in {"addSellerExp", "save"}
             /\ inflight[w].transaction.buyerId = u THEN 50 ELSE 0)
       + (IF inflight[w].pc = "save"
             /\ inflight[w].transaction.sellerId = u THEN 150 ELSE 0)

\* C13: while every webhook call made so far is still running and none of
\* its accrual statements failed, each user's totalExp is the sum of the
\* deltas of the accrual statements executed so far, in whatever order the
\* two handlers' statements interleaved.
C13_NoLostUpdates ==
    \A w1, w2 \in Workers :
        (/\ w1 # w2
         /\ delivered = Cardinality({w \in Workers : inflight[w].pc \notin {"idle", "insert"}})
         /\ \A w \in Workers :
               inflight[w].pc \notin {"idle", "insert"} => inflight[w].expErrs = 0)
        => \A u \in Users : totalExp[u] = CreditedBy(w1, u) + CreditedBy(w2, u)

C13_Witness ==
    /\ delivered = 2
    /\ \A w \in Workers :
          /\ inflight[w].pc = "save"
          /\ inflight[w].grants
          /\ inflight[w].expErrs = 0
    /\ totalExp["bob"] = 100
    /\ totalExp["alice"] = 300

\* exp with d added to u's total and every other total as it was
Credit(exp, u, d) == [v \in DOMAIN exp |-> IF v = u THEN exp[v] + d ELSE exp[v]]

\* the events whose credit does not depend on who triggers them: project
\* and article creation, article and project views, success-mapping
\* notifications
FixedCredits ==
    /\ [](/\ \A u \in DOMAIN totalExp :
                /\ CreateProjectExp(u) = Credit(totalExp, u, 100)
                /\ CreateArticleExp(u) = Credit(totalExp, u, 75)
          /\ \A a \in DOMAIN articles :
                ViewArticleExp(a) = Credit(totalExp, articles[a].userId, 1)
          /\ \A t \in transactions, ts \in {"capture", "settlement"}, fs \in {"accept", ""},
                g \in GatewayTxIds :
                LET n == Notification(t.midtransOrderId, ts, fs, g, ServerKey) IN
                HandleMidtransNotification(n).totalExp =
                    Credit(Credit(totalExp, Resolved(n).buyerId, 50),
                           Resolved(n).sellerId, 150))
    /\ [][\A w \in Workers :
             (/\ inflight[w].pc = "viewExp"
              /\ inflight'[w] # inflight[w]
              /\ inflight[w].userId \in DOMAIN totalExp)
             => totalExp' = Credit(totalExp, inflight[w].userId, 1)]_vars

\* C14 as claimed: every event credits its fixed value to its designated
\* user and to nobody else; a new like credits the project's owner 10 and a
\* comment credits the project's owner 5, whoever likes or comments.
C14_EachEventCreditsOneUser ==
    /\ FixedCredits
    /\ [](\A u \in DOMAIN totalExp, p \in DOMAIN projects :
            /\ <<u, p>> \notin projectLikes
                  => LikeExp(u, p) = Credit(totalExp, projects[p].userId, 10)
            /\ CommentExp(u, p) = Credit(totalExp, projects[p].userId, 5))

\* C14 as amended: every event credits its fixed value to its designated
\* user and to nobody else; a new like credits the project's owner 10 and a
\* comment credits the project's owner 5 when the caller is not the owner;
\* a like or comment on the caller's own project, and the removal of a
\* like, change no totalExp.
C14_EventCreditsExceptOwnProject ==
    /\ FixedCredits
    /\ [](\A u \in DOMAIN totalExp, p \in DOMAIN projects :
            /\ LikeExp(u, p) =
                  IF <<u, p>> \notin projectLikes /\ projects[p].userId # u
                  THEN Credit(totalExp, projects[p].userId, 10)
                  ELSE totalExp
            /\ CommentExp(u, p) =
                  IF projects[p].userId # u
                  THEN Credit(totalExp, projects[p].userId, 5)
                  ELSE totalExp)

C14_Witness ==
    /\ result.op = "like" /\ result.code = 200 /\ result.liked
    /\ projectLikes = {<<"alice", PaidProject>>, <<"bob", PaidProject>>}
    /\ totalExp["alice"] = 10
    /\ totalExp["bob"] = 0

\* C15: an accrual for a user that is not stored changes no totalExp; when
\* the owner read by a project view is gone by the time of the accrual, the
\* call changes no table and the view is answered 200 all the same.
C15_MissingUserAccrualIsNoOp ==
    /\ [](\A u \in Users \ DOMAIN totalExp, d \in {1, 5, 10, 50, 75, 100, 150} :
            AddUserExp(totalExp, u, d) = totalExp)
    /\ [][\A w \in Workers :
             (/\ inflight[w].pc = "viewExp"
              /\ inflight[w].userId \notin DOMAIN totalExp
              /\ inflight'[w] # inflight[w])
             => /\ UNCHANGED <<projects, totalExp, transactions, contentVars>>
                /\ result'.op = "view"
                /\ result'.err = ""
                /\ result'.code = 200]_vars

C15_Witness ==
    /\ result.op = "view" /\ result.err = "" /\ result.code = 200
    /\ result.target \in Users \ DOMAIN totalExp

\* C16: every stored totalExp is a non-negative integer, and no step of a
\* domain operation lowers the totalExp of a user it leaves stored.
C16_TotalExpNeverDecreases ==
    /\ [](\A u \in DOMAIN totalExp : totalExp[u] \in Nat)
    /\ [][\A u \in DOMAIN totalExp \cap DOMAIN totalExp' :
             totalExp'[u] >= totalExp[u]]_vars

C16_Witness ==
    /\ result.op = "like" /\ result.code = 200 /\ ~result.liked
    /\ projectLikes = {}
    /\ totalExp["alice"] = 10

\* the threshold the claims name: 100 * L * L
RequiredExpForLevel(L) == 100 * L * L

\* C21: the level of the total requiredExpForLevel(L) is L, for every L with
\* 1 <= L < 100.
C21_LevelOfThresholdIsL ==
    \A u \in DOMAIN totalExp, L \in 1..99 :
        totalExp[u] = GetRequiredExpForLevel(L)
        => GetLevelFromExp(totalExp[u]) = L

\* C22: the progress of every non-negative total is an integer from 0 to
\* 100, and is 100 whenever the level of the total is 100.
C22_ProgressInRange ==
    \A u \in DOMAIN totalExp :
        totalExp[u] >= 0
        => /\ GetLevelProgress(totalExp[u]) \in 0..100
           /\ LevelForExp(totalExp[u]) = 100 => GetLevelProgress(totalExp[u]) = 100

\* C23: the progress of the total requiredExpForLevel(L) is 0, for every L
\* with 1 <= L < 100.
C23_ProgressZeroAtThreshold ==
    \A u \in DOMAIN totalExp, L \in 1..99 :
        totalExp[u] = RequiredExpForLevel(L)
        => GetLevelProgress(totalExp[u]) = 0

\* C24: the EXP to the next level of every non-negative total is not
\* negative; it is 0 when the level of the total is 100, and otherwise the
\* threshold of the level after the total's level minus the total.
C24_ExpToNextLevel ==
    /\ \A u \in DOMAIN totalExp :
          totalExp[u] >= 0
          => /\ GetExpToNextLevel(totalExp[u]) >= 0
             /\ GetExpToNextLevel(totalExp[u])
                   = IF LevelForExp(totalExp[u]) = 100 THEN 0
                     ELSE RequiredExpForLevel(LevelForExp(totalExp[u]) + 1) - totalExp[u]
    /\ (result.op = "stats" /\ result.stats.totalExp >= 0)
       => result.stats.expToNextLevel
             = IF result.stats.level = 100 THEN 0
               ELSE RequiredExpForLevel(result.stats.level + 1) - result.stats.totalExp

C24_Witness ==
    /\ result.op = "stats"
    /\ result.stats.totalExp = 399
    /\ result.stats.level = 2
    /\ result.stats.expToNextLevel = 501

\* the title of the highest of the thresholds 100, 50, 20, 10, 5, 1 that the
\* level reaches
TitleOfRange(level) ==
    CASE level \in 1..4 -> "Pemula"
      [] level \in 5..9 -> "Aktif"
      [] level \in 10..19 -> "Contributor"
      [] level \in 20..49 -> "Expert"
      [] level \in 50..99 -> "Master"
      [] level = 100 -> "Legend"

\* C25 as stated: every level from 1 to 100 has the title of its range, and
\* level 99 has the title "Expert".
C25_TitleOfLevelWith99Expert ==
    /\ \A level \in 1..100 : GetLevelTitle(level) = TitleOfRange(level)
    /\ result.op = "stats" => result.stats.levelTitle = TitleOfRange(result.stats.level)
    /\ GetLevelTitle(99) = "Expert"
    /\ (result.op = "stats" /\ result.stats.level = 99) => result.stats.levelTitle = "Expert"

\* C25: every level from 1 to 100 has the title of the highest threshold it
\* reaches: 1-4 Pemula, 5-9 Aktif, 10-19 Contributor, 20-49 Expert, 50-99
\* Master, 100 Legend; level 99 has the title "Master".
C25_TitleOfLevel ==
    /\ \A level \in 1..100 : GetLevelTitle(level) = TitleOfRange(level)
    /\ result.op = "stats" => result.stats.levelTitle = TitleOfRange(result.stats.level)
    /\ GetLevelTitle(99) = "Master"
    /\ (result.op = "stats" /\ result.stats.level = 99) => result.stats.levelTitle = "Master"

C25_Witness ==
    /\ result.op = "stats"
    /\ result.stats.level = 99
    /\ result.stats.levelTitle = "Master"

\* C29: the stats of every non-negative total agree with each other: the
\* level is the level of the total, the title is the title of the level, the
\* EXP to the next level is 0 exactly at level 100, and below level 100 the
\* total plus the EXP to the next level has the next level while one EXP
\* less still has the current level.
C29_StatsConsistent ==
    (result.op = "stats" /\ result.stats.totalExp >= 0)
    => LET st == result.stats IN
       /\ st.level = LevelForExp(st.totalExp)
       /\ st.levelTitle = TitleOfRange(st.level)
       /\ (st.expToNextLevel = 0) = (st.level = 100)
       /\ st.level < 100
          => /\ GetLevelFromExp(st.totalExp + st.expToNextLevel) = st.level + 1
             /\ GetLevelFromExp(st.totalExp + st.expToNextLevel - 1) = st.level

\* C30: the level helper of the models package and the one of the services
\* package give the same level for every integer total, negative ones
\* included, so the level of a user response is the level of the stats
\* computed from the same total; and neither level drops as the total grows.
C30_LevelHelpersAgree ==
    /\ \A u \in DOMAIN totalExp :
          /\ ModelsGetLevelFromExp(totalExp[u]) = GetLevelFromExp(totalExp[u])
          /\ \A d \in {1, 2, BaseExp, 3 * BaseExp} :
                /\ ModelsGetLevelFromExp(totalExp[u])
                      <= ModelsGetLevelFromExp(totalExp[u] + d)
                /\ GetLevelFromExp(totalExp[u]) <= GetLevelFromExp(totalExp[u] + d)
    /\ (result.op = "user" /\ result.err = "")
       => /\ result.user.totalExp = result.gamification.totalExp
          /\ result.user.level = result.gamification.level

C30_Witness ==
    /\ result.op = "user" /\ result.err = ""
    /\ result.user.totalExp < 0
    /\ result.user.level = 1
    /\ result.gamification.level = 1

\* C26: a webhook call changes at most the status and the external
\* transaction identifier of one Transaction, the first row stored under its
\* order ID; the projectId, buyerId, sellerId, amount and external order ID
\* of that row and every field of every other row stay as they were, and no
\* row is added or removed.
C26_NotificationFrame ==
    [][WebhookStep
       => /\ {t.id : t \in transactions'} = {t.id : t \in transactions}
          /\ Cardinality(transactions') = Cardinality(transactions)
          /\ \A t \in transactions :
                /\ RowAfter(t.id).projectId = t.projectId
                /\ RowAfter(t.id).buyerId = t.buyerId
                /\ RowAfter(t.id).sellerId = t.sellerId
                /\ RowAfter(t.id).amount = t.amount
                /\ RowAfter(t.id).midtransOrderId = t.midtransOrderId
                /\ RowAfter(t.id) # t
                   => \A u \in transactions :
                         u.midtransOrderId = t.midtransOrderId => t.id <= u.id
          /\ Cardinality({t \in transactions : RowAfter(t.id) # t}) <= 1]_vars

C26_Witness ==
    /\ result.op = "webhook" /\ result.err = ""
    /\ \E t1, t2 \in transactions :
          /\ t1.id < t2.id
          /\ t1.midtransOrderId = t2.midtransOrderId
          /\ t1.status = "success"
          /\ t1.midtransTransactionId # Null
          /\ t2.status = "pending"
          /\ t2.midtransTransactionId = Null

\* C27: whenever no call is in progress, every user who holds purchase EXP
\* is the buyer or the seller of a Transaction stored with status success,
\* also after a call whose final save failed.
C27_CreditImpliesStoredSuccess ==
    (\A w \in Workers : inflight[w] = Idle)
    => \A u \in DOMAIN totalExp :
          totalExp[u] > 0
          => \E t \in transactions :
                /\ t.status = "success"
                /\ u \in {t.buyerId, t.sellerId}

\* C28: a create-purchase call for a paid project is rejected only when a
\* success row of the same (projectId, buyerId) exists; otherwise it adds
\* one pending row, whether the gateway call succeeds or fails, and every
\* pending row is moved to success by the settlement notification that
\* carries its order ID.
C28_OnlySuccessBlocks ==
    /\ \A p \in DOMAIN projects, b \in Buyers, o \in SnapOutcomes, id \in FreeIds :
          (/\ projects[p].type = "paid"
           /\ ~\E t \in transactions :
                 t.projectId = p /\ t.buyerId = b /\ t.status = "success")
          => LET out == CreateSnapTransaction(p, b, id, o) IN
             /\ out.err \notin Rejections
             /\ Cardinality(out.transactions) = Cardinality(transactions) + 1
             /\ transactions \subseteq out.transactions
             /\ \A t \in out.transactions \ transactions :
                   t.status = "pending" /\ t.projectId = p /\ t.buyerId = b
    /\ \A t \in transactions, g \in GatewayTxIds :
          t.status = "pending"
          => \E a \in HandleMidtransNotification(
                          Notification(t.midtransOrderId, "settlement", "accept",
                                       g, ServerKey)).transactions :
                a.id = t.id /\ a.status = "success"

====
